---- MODULE Spec2Model ----
(***************************************************************************)
(* Police Parking 3D (src/components/PoliceParkingGame.tsx): the per-frame *)
(* vehicle simulation of GameLoop.useFrame, the keyboard intents of        *)
(* useKeyboard and the progression state machine of PoliceParkingGame.     *)
(*                                                                         *)
(* JavaScript numbers are modelled in fixed point with three decimals:     *)
(* lengths in 1/1000 unit, angles in 1/1000 rad, times in ms, velocities   *)
(* in 1/1000 unit per second.  Products are rescaled with a division that  *)
(* truncates toward zero.                                                  *)
(*                                                                         *)
(* State of the program that is written but never read by the logic is     *)
(* left out: gameState.startedAt (performance.now() at line 449),          *)
(* goalPulse (cosmetic, lines 298/347) and the value of resetSignal (only  *)
(* its change matters: it re-runs the effect of lines 342-344, which is    *)
(* part of the action that changes it).  The car's y coordinate is the     *)
(* constant 0.4 and every test replaces it with setY.                      *)
(***************************************************************************)
EXTENDS Integers, Sequences, FiniteSets, TLC

VARIABLES
    gameState,   \* useState<GameState>, line 435 (tagged record)
    totalTime,   \* useState, line 438 (ms)
    totalBumps,  \* useState, line 439
    keyboard,    \* useKeyboard state, lines 83-89
    car,         \* carRef.current: [x, z, rotY], lines 296, 335-339
    velocity,    \* velocity ref, line 297
    timeRef,     \* timeRef, line 299 (ms)
    bumpsRef,    \* bumpsRef, line 300
    frames,      \* number of frames rendered so far (bounds the run)
    event,       \* what the latest step signalled to the controller
    keysDown,    \* the keys physically down; followed by SpecKeys only
    pending      \* the state updates React has not rendered yet: << >> or
                 \* <<controller state>>; used by SpecDeferred only

vars == <<gameState, totalTime, totalBumps, keyboard, car, velocity,
          timeRef, bumpsRef, frames, event, keysDown, pending>>

----------------------------------------------------------------------------
(* Fixed-point arithmetic *)

Milli == 1000

Abs(x) == IF x < 0 THEN -x ELSE x

Sign(x) == IF x > 0 THEN 1 ELSE IF x < 0 THEN -1 ELSE 0

Min(a, b) == IF a < b THEN a ELSE b

Max(a, b) == IF a > b THEN a ELSE b

\* F applied to the value of e (e is evaluated once)
Bind(e, F(_)) == CHOOSE y \in {F(x) : x \in {e}} : TRUE

\* a / b truncated toward zero (b > 0)
TDiv(a, b) == IF a >= 0 THEN a \div b ELSE -((-a) \div b)

\* product of two fixed-point numbers
Mul(a, b) == TDiv(a * b, Milli)

PI == 3142

TwoPi == 2 * PI

HalfPi == PI \div 2

\* Math.atan2(Math.sin(d), Math.cos(d)): d wrapped into (-PI, PI]
WrapAngle(d) ==
    LET m == d % TwoPi
    IN  IF m > PI THEN m - TwoPi ELSE m

\* sine of r for -PI/2 <= r <= PI/2 (Taylor series to the ninth power)
SinReduced(r) ==
    LET x2 == Mul(r, r)
        t3 == TDiv(r * x2, 6 * Milli)
        t5 == TDiv(t3 * x2, 20 * Milli)
        t7 == TDiv(t5 * x2, 42 * Milli)
        t9 == TDiv(t7 * x2, 72 * Milli)
    IN  r - t3 + t5 - t7 + t9

Sin(h) ==
    LET n == WrapAngle(h)
    IN  IF n > HalfPi THEN SinReduced(PI - n)
        ELSE IF n < -HalfPi THEN SinReduced(-PI - n)
        ELSE SinReduced(n)

Cos(h) == Sin(h + HalfPi)

----------------------------------------------------------------------------
(* three.js Vector3 / Box3 as used by the component *)

Vec(x, y, z) == [x |-> x, y |-> y, z |-> z]

\* computeBoundingBox, lines 276-279
computeBoundingBox(center, size) ==
    [min |-> Vec(center.x - TDiv(size.x, 2), center.y - TDiv(size.y, 2),
                 center.z - TDiv(size.z, 2)),
     max |-> Vec(center.x + TDiv(size.x, 2), center.y + TDiv(size.y, 2),
                 center.z + TDiv(size.z, 2))]

\* Box3.containsPoint: bounds inclusive
containsPoint(box, p) ==
    /\ p.x >= box.min.x /\ p.x <= box.max.x
    /\ p.y >= box.min.y /\ p.y <= box.max.y
    /\ p.z >= box.min.z /\ p.z <= box.max.z

\* Box3.intersectsBox: touching boxes intersect
intersectsBox(a, b) ==
    ~ \/ b.max.x < a.min.x \/ b.min.x > a.max.x
      \/ b.max.y < a.min.y \/ b.min.y > a.max.y
      \/ b.max.z < a.min.z \/ b.min.z > a.max.z

----------------------------------------------------------------------------
(* Level catalog, lines 28-77.  obstacle.height is undefined everywhere,  *)
(* so (obstacle.height ?? 2) is 2.                                         *)

Obstacle(px, pz, sx, sy, sz) ==
    [position |-> Vec(px, 0, pz), size |-> Vec(sx, sy, sz), height |-> 2000]

LEVELS == <<
    [id |-> 1,
     start |-> Vec(-12000, 0, 14000), startRotation |-> PI,
     goalPosition |-> Vec(12000, 0, -10000), goalRotation |-> 0,
     goalSize |-> Vec(6000, 0, 12000),
     obstacles |-> << Obstacle(0, 0, 4000, 2000, 16000),
                      Obstacle(8000, 8000, 4000, 2000, 4000),
                      Obstacle(-8000, -6000, 4000, 2000, 6000) >>,
     bounds |-> [width |-> 40000, height |-> 30000]],
    [id |-> 2,
     start |-> Vec(-16000, 0, 12000), startRotation |-> HalfPi,
     goalPosition |-> Vec(16000, 0, -12000), goalRotation |-> -HalfPi,
     goalSize |-> Vec(5000, 0, 10000),
     obstacles |-> << Obstacle(-6000, 6000, 3000, 3000, 6000),
                      Obstacle(2000, 0, 3000, 3000, 14000),
                      Obstacle(10000, -8000, 3000, 3000, 6000),
                      Obstacle(0, -12000, 20000, 3000, 2000) >>,
     bounds |-> [width |-> 48000, height |-> 36000]],
    [id |-> 3,
     start |-> Vec(18000, 0, 14000), startRotation |-> PI,
     goalPosition |-> Vec(-18000, 0, -14000), goalRotation |-> -PI,
     goalSize |-> Vec(5500, 0, 11000),
     obstacles |-> << Obstacle(0, 0, 6000, 5000, 6000),
                      Obstacle(-10000, -6000, 4000, 4000, 10000),
                      Obstacle(10000, 6000, 5000, 4000, 8000),
                      Obstacle(-5000, 12000, 3000, 4000, 4000),
                      Obstacle(12000, -10000, 5000, 4000, 5000) >>,
     bounds |-> [width |-> 52000, height |-> 40000]] >>

\* LEVELS.length - 1, line 462
LastIndex == Len(LEVELS) - 1

\* LEVELS[levelIndex] with the zero-based index of the source
LevelAt(levelIndex) == LEVELS[levelIndex + 1]

\* carSize, line 281
carSize == Vec(1600, 1200, 3000)

----------------------------------------------------------------------------
(* Collision volumes, lines 302-327 *)

boundsBox(level) ==
    computeBoundingBox(Vec(0, 0, 0),
        Vec(level.bounds.width - 1000, 5000, level.bounds.height - 1000))

obstacleBox(obstacle) ==
    computeBoundingBox(
        Vec(obstacle.position.x, TDiv(obstacle.height, 2), obstacle.position.z),
        Vec(Max(obstacle.size.x - 400, 500), obstacle.height,
            Max(obstacle.size.z - 400, 500)))

obstacleBoxes(level) ==
    [i \in 1..Len(level.obstacles) |-> obstacleBox(level.obstacles[i])]

goalBox(level) ==
    computeBoundingBox(
        Vec(level.goalPosition.x, 600, level.goalPosition.z),
        Vec(level.goalSize.x - 400, 1200, level.goalSize.z - 400))

----------------------------------------------------------------------------
(* GameLoop.useFrame, lines 346-414: the simulation step *)

\* steerSpeed, line 376
steerSpeed == 1700

\* velocity.current += accel * delta, lines 353 and 358
applyAccel(v, kb, delta) ==
    LET accel == IF kb.forward THEN 22 ELSE IF kb.backward THEN -16 ELSE 0
    IN  v + accel * delta

\* A faulty variant of applyBrake: the braking force is always subtracted,
\* without the snap to zero of lines 360-361.
applyBrakeNoSnap(v, kb, delta) ==
    LET brakeForce == IF kb.brake THEN 35 ELSE 0
    IN  IF kb.brake
        THEN v - (IF v >= 0 THEN 1 ELSE -1) * brakeForce * delta
        ELSE v

\* lines 354 and 359-365
applyBrake(v, kb, delta) ==
    LET brakeForce == IF kb.brake THEN 35 ELSE 0
    IN  IF kb.brake
        THEN IF Abs(v) < brakeForce * delta
             THEN 0
             ELSE v - Sign(v) * brakeForce * delta
        ELSE v

\* A faulty variant of clampSpeed: only the reverse limit is enforced, the
\* forward speed has no ceiling.
clampSpeedNoCeiling(v, kb) ==
    Max(v, -10000)

\* lines 355 and 367
clampSpeed(v, kb) ==
    LET maxSpeed == IF kb.backward THEN 10000 ELSE 24000
    IN  Max(Min(v, maxSpeed), -10000)

\* A faulty variant of applyDamping: the damping is not limited to the
\* speed left, so coasting can overshoot zero.
applyDampingOvershoot(v, kb, delta) ==
    LET friction == IF kb.forward \/ kb.backward \/ kb.brake THEN 5 ELSE 8
    IN  IF ~kb.forward /\ ~kb.backward
        THEN v - Sign(v) * friction * delta
        ELSE v

\* lines 356 and 369-372
applyDamping(v, kb, delta) ==
    LET friction == IF kb.forward \/ kb.backward \/ kb.brake THEN 5 ELSE 8
        damping  == Min(Abs(v), friction * delta)
    IN  IF ~kb.forward /\ ~kb.backward
        THEN v - Sign(v) * damping
        ELSE v

\* lines 353-372
updateVelocity(v, kb, delta) ==
    Bind(applyAccel(v, kb, delta), LAMBDA v1 :
    Bind(applyBrake(v1, kb, delta), LAMBDA v2 :
    Bind(clampSpeed(v2, kb), LAMBDA v3 :
         applyDamping(v3, kb, delta))))

\* lines 374-377
turnAmount(v, kb, delta) ==
    LET steerInput     == (IF kb.left THEN 1 ELSE 0) - (IF kb.right THEN 1 ELSE 0)
        steerIntensity == Min(TDiv(Abs(v), 10), Milli)
    IN  Mul(Mul(steerInput * steerSpeed, steerIntensity), delta)

\* new Vector3(0, 0, 1).applyAxisAngle(new Vector3(0, 1, 0), rotation.y), line 379
forwardMove(rotY) == Vec(Sin(rotY), 0, Cos(rotY))

\* car.position.addScaledVector(forwardMove, velocity.current * delta), line 381
translate(pos, rotY, v, delta) ==
    Bind(Mul(v, delta), LAMBDA s :
    Bind(forwardMove(rotY), LAMBDA f :
         [x |-> pos.x + Mul(f.x, s), z |-> pos.z + Mul(f.z, s)]))

\* A faulty variant of resolveBounds: the velocity is scaled but not
\* reversed.
resolveBoundsNoFlip(level, lastPosition, s) ==
    IF ~containsPoint(boundsBox(level), Vec(s.pos.x, 1000, s.pos.z))
    THEN [pos |-> lastPosition, vel |-> TDiv(s.vel * 3, 10),
          bumps |-> s.bumps + 1]
    ELSE s

\* A faulty variant of resolveBounds: a vehicle that leaves the boundary
\* volume is put on the centre of the arena, not on its pre-move position.
resolveBoundsToCentre(level, lastPosition, s) ==
    IF ~containsPoint(boundsBox(level), Vec(s.pos.x, 1000, s.pos.z))
    THEN [pos |-> [x |-> 0, z |-> 0], vel |-> TDiv(s.vel * (-3), 10),
          bumps |-> s.bumps + 1]
    ELSE s

\* lines 383-387: s is [pos, vel, bumps] after the translation
resolveBounds(level, lastPosition, s) ==
    IF ~containsPoint(boundsBox(level), Vec(s.pos.x, 1000, s.pos.z))
    THEN [pos |-> lastPosition, vel |-> TDiv(s.vel * (-3), 10),
          bumps |-> s.bumps + 1]
    ELSE s

\* lines 389-392
carBox(pos) ==
    computeBoundingBox(Vec(pos.x, 600, pos.z),
                       Vec(carSize.x, carSize.y, TDiv(carSize.z * 7, 10)))

\* obstacleBoxes.some(box => box.intersectsBox(carBox)), line 394
collided(level, pos) ==
    \E cb \in {carBox(pos)} :
    \E boxes \in {obstacleBoxes(level)} :
    \E i \in DOMAIN boxes : intersectsBox(boxes[i], cb)

\* A faulty variant of resolveObstacles: the vehicle bounces but is left
\* where the translation put it.
resolveObstaclesInPlace(level, lastPosition, s) ==
    IF collided(level, s.pos)
    THEN [pos |-> s.pos, vel |-> TDiv(s.vel * (-4), 10),
          bumps |-> s.bumps + 1]
    ELSE s

\* A faulty variant of resolveObstacles: the restitution of the wall (-0.3)
\* is used for obstacles too.
resolveObstaclesAsWall(level, lastPosition, s) ==
    IF collided(level, s.pos)
    THEN [pos |-> lastPosition, vel |-> TDiv(s.vel * (-3), 10),
          bumps |-> s.bumps + 1]
    ELSE s

\* lines 395-399
resolveObstacles(level, lastPosition, s) ==
    IF collided(level, s.pos)
    THEN [pos |-> lastPosition, vel |-> TDiv(s.vel * (-4), 10),
          bumps |-> s.bumps + 1]
    ELSE s

\* A faulty variant of goalReached: the speed limit is 12 instead of 1.2.
goalReachedLooseSpeed(level, pos, rotY, v) ==
    LET inGoal == containsPoint(goalBox(level), Vec(pos.x, 600, pos.z))
        facingRequirement == Abs(WrapAngle(rotY - level.goalRotation))
    IN  inGoal /\ Abs(v) < 12000 /\ facingRequirement < 300

\* lines 401-405: the condition of the goal evaluation
goalReached(level, pos, rotY, v) ==
    LET inGoal == containsPoint(goalBox(level), Vec(pos.x, 600, pos.z))
        facingRequirement == Abs(WrapAngle(rotY - level.goalRotation))
    IN  inGoal /\ Abs(v) < 1200 /\ facingRequirement < 300

\* line 410
overSpeed(v) == Abs(v) > 35000

\* The body of useFrame up to the callbacks: the vehicle after the tick and
\* what it signals.  cs is [car, velocity, timeRef, bumpsRef].
simulate(level, cs, kb, delta) ==
    Bind(updateVelocity(cs.velocity, kb, delta), LAMBDA v1 :
    Bind(cs.car.rotY + turnAmount(v1, kb, delta), LAMBDA rotY :
    Bind([x |-> cs.car.x, z |-> cs.car.z], LAMBDA lastPosition :
    Bind([pos |-> translate(lastPosition, rotY, v1, delta),
          vel |-> v1, bumps |-> cs.bumpsRef], LAMBDA moved :
    Bind(resolveBounds(level, lastPosition, moved), LAMBDA s2 :
    Bind(resolveObstacles(level, lastPosition, s2), LAMBDA s3 :
    Bind(goalReached(level, s3.pos, rotY, s3.vel), LAMBDA arrived :
    Bind(IF arrived THEN 0 ELSE s3.vel, LAMBDA v4 :
         [car      |-> [x |-> s3.pos.x, z |-> s3.pos.z, rotY |-> rotY],
          velocity |-> v4,
          timeRef  |-> cs.timeRef + delta,
          bumpsRef |-> s3.bumps,
          goalVel  |-> s3.vel,
          moveVel  |-> v1,
          moved    |-> moved.pos,
          arrived  |-> arrived,
          crashed  |-> overSpeed(v4)]))))))))

\* resetCarState, lines 329-340
resetCarState(level) ==
    [car      |-> [x |-> level.start.x, z |-> level.start.z,
                   rotY |-> level.startRotation],
     velocity |-> 0,
     timeRef  |-> 0,
     bumpsRef |-> 0]

----------------------------------------------------------------------------
(* PoliceParkingGame, lines 434-505: the progression state machine *)

Intro == [status |-> "intro"]

Playing(levelIndex) == [status |-> "playing", levelIndex |-> levelIndex]

Success(levelIndex, elapsed, bumps) ==
    [status |-> "success", levelIndex |-> levelIndex,
     elapsed |-> elapsed, bumps |-> bumps]

Complete(time, bumps) ==
    [status |-> "complete", totalTime |-> time, totalBumps |-> bumps]

\* the index behind currentLevel, lines 441-446
currentLevelIndex(gs) ==
    IF gs.status = "playing" \/ gs.status = "success" THEN gs.levelIndex ELSE 0

currentLevel(gs) == LevelAt(currentLevelIndex(gs))

\* A faulty variant of handleSuccess: the session totals are replaced by
\* the level's result instead of growing by it.
handleSuccessOverwrites(p, elapsedSeconds, bumps) ==
    IF p.gameState.status # "playing"
    THEN p
    ELSE [gameState  |-> IF p.gameState.levelIndex = LastIndex
                         THEN Complete(elapsedSeconds, bumps)
                         ELSE Success(p.gameState.levelIndex,
                                      elapsedSeconds, bumps),
          totalTime  |-> elapsedSeconds,
          totalBumps |-> bumps]

\* A faulty variant of handleSuccess: the last level is taken to be
\* LEVELS.length, so the final arrival reports an ordinary success.
handleSuccessOffByOne(p, elapsedSeconds, bumps) ==
    IF p.gameState.status # "playing"
    THEN p
    ELSE LET nextTotalTime  == p.totalTime + elapsedSeconds
             nextTotalBumps == p.totalBumps + bumps
         IN  [gameState  |-> IF p.gameState.levelIndex = LastIndex + 1
                             THEN Complete(nextTotalTime, nextTotalBumps)
                             ELSE Success(p.gameState.levelIndex,
                                          elapsedSeconds, bumps),
              totalTime  |-> nextTotalTime,
              totalBumps |-> nextTotalBumps]

\* A faulty variant of handleSuccess: the status guard of lines 455-457 is
\* missing, every Arrived signal is recorded.
handleSuccessUnguarded(p, elapsedSeconds, bumps) ==
    LET nextTotalTime  == p.totalTime + elapsedSeconds
        nextTotalBumps == p.totalBumps + bumps
    IN  [gameState  |-> IF currentLevelIndex(p.gameState) = LastIndex
                        THEN Complete(nextTotalTime, nextTotalBumps)
                        ELSE Success(currentLevelIndex(p.gameState),
                                     elapsedSeconds, bumps),
         totalTime  |-> nextTotalTime,
         totalBumps |-> nextTotalBumps]

\* handleSuccess, lines 453-478: p is [gameState, totalTime, totalBumps]
handleSuccess(p, elapsedSeconds, bumps) ==
    IF p.gameState.status # "playing"
    THEN p
    ELSE LET nextTotalTime  == p.totalTime + elapsedSeconds
             nextTotalBumps == p.totalBumps + bumps
         IN  [gameState  |-> IF p.gameState.levelIndex = LastIndex
                             THEN Complete(nextTotalTime, nextTotalBumps)
                             ELSE Success(p.gameState.levelIndex,
                                          elapsedSeconds, bumps),
              totalTime  |-> nextTotalTime,
              totalBumps |-> nextTotalBumps]

\* handleCrash, lines 480-482
handleCrash(p) == [p EXCEPT !.totalBumps = @ + 1]

\* startLevel, lines 448-451 (the resetSignal change is the TRUE passed to
\* the effect by the callers)
startLevel(levelIndex) == Playing(levelIndex)

\* useEffect of lines 342-344: resetCarState runs when the level or the
\* resetSignal changed in the render that follows the update.
resetEffect(gsOld, gsNew, signalled, cs) ==
    IF signalled \/ currentLevelIndex(gsNew) # currentLevelIndex(gsOld)
    THEN resetCarState(currentLevel(gsNew))
    ELSE cs

----------------------------------------------------------------------------
(* useKeyboard, lines 82-129, and the keydown handler of lines 484-505 *)

KeyCodes == {"ArrowUp", "KeyW", "ArrowDown", "KeyS", "ArrowLeft", "KeyA",
             "ArrowRight", "KeyD", "Space", "Enter", "KeyR"}

Keys(f, b, l, r, k) ==
    [forward |-> f, backward |-> b, left |-> l, right |-> r, brake |-> k]

NoKeys == Keys(FALSE, FALSE, FALSE, FALSE, FALSE)

\* onKey(pressed)(event), lines 92-116
onKey(kb, pressed, code) ==
    CASE code \in {"ArrowUp", "KeyW"}      -> [kb EXCEPT !.forward = pressed]
      [] code \in {"ArrowDown", "KeyS"}    -> [kb EXCEPT !.backward = pressed]
      [] code \in {"ArrowLeft", "KeyA"}    -> [kb EXCEPT !.left = pressed]
      [] code \in {"ArrowRight", "KeyD"}   -> [kb EXCEPT !.right = pressed]
      [] code = "Space"                    -> [kb EXCEPT !.brake = pressed]
      [] OTHER                             -> kb

\* A faulty variant of handleKeyPress: KeyR restarts in every status.
handleKeyPressRestartAnywhere(p, code) ==
    LET q == [gameState |-> p.gameState, totalTime |-> p.totalTime,
              totalBumps |-> p.totalBumps, signalled |-> FALSE,
              command |-> "Idle"]
        afterEnter ==
            IF code = "Enter" \/ code = "Space"
            THEN IF p.gameState.status = "intro"
                 THEN [q EXCEPT !.gameState = startLevel(0),
                                !.signalled = TRUE,
                                !.command = "Start"]
                 ELSE IF p.gameState.status = "success"
                 THEN [q EXCEPT !.gameState =
                                    startLevel(p.gameState.levelIndex + 1),
                                !.signalled = TRUE,
                                !.command = "Advance"]
                 ELSE IF p.gameState.status = "complete"
                 THEN [q EXCEPT !.gameState = Intro,
                                !.totalBumps = 0,
                                !.totalTime = 0,
                                !.command = "Menu"]
                 ELSE q
            ELSE q
    IN  IF code = "KeyR"
        THEN [afterEnter EXCEPT !.signalled = TRUE, !.command = "Restart"]
        ELSE afterEnter

\* A faulty variant of handleKeyPress: advancing starts the level just
\* finished again.
handleKeyPressReplaysLevel(p, code) ==
    LET q == [gameState |-> p.gameState, totalTime |-> p.totalTime,
              totalBumps |-> p.totalBumps, signalled |-> FALSE,
              command |-> "Idle"]
        afterEnter ==
            IF code = "Enter" \/ code = "Space"
            THEN IF p.gameState.status = "intro"
                 THEN [q EXCEPT !.gameState = startLevel(0),
                                !.signalled = TRUE,
                                !.command = "Start"]
                 ELSE IF p.gameState.status = "success"
                 THEN [q EXCEPT !.gameState =
                                    startLevel(p.gameState.levelIndex),
                                !.signalled = TRUE,
                                !.command = "Advance"]
                 ELSE IF p.gameState.status = "complete"
                 THEN [q EXCEPT !.gameState = Intro,
                                !.totalBumps = 0,
                                !.totalTime = 0,
                                !.command = "Menu"]
                 ELSE q
            ELSE q
    IN  IF code = "KeyR" /\ p.gameState.status = "playing"
        THEN [afterEnter EXCEPT !.signalled = TRUE, !.command = "Restart"]
        ELSE afterEnter

\* A faulty variant of handleKeyPress: starting a session clears the totals.
handleKeyPressClearsOnStart(p, code) ==
    LET q == [gameState |-> p.gameState, totalTime |-> p.totalTime,
              totalBumps |-> p.totalBumps, signalled |-> FALSE,
              command |-> "Idle"]
        afterEnter ==
            IF code = "Enter" \/ code = "Space"
            THEN IF p.gameState.status = "intro"
                 THEN [q EXCEPT !.gameState = startLevel(0),
                                !.totalBumps = 0,
                                !.totalTime = 0,
                                !.signalled = TRUE,
                                !.command = "Start"]
                 ELSE IF p.gameState.status = "success"
                 THEN [q EXCEPT !.gameState =
                                    startLevel(p.gameState.levelIndex + 1),
                                !.signalled = TRUE,
                                !.command = "Advance"]
                 ELSE IF p.gameState.status = "complete"
                 THEN [q EXCEPT !.gameState = Intro,
                                !.totalBumps = 0,
                                !.totalTime = 0,
                                !.command = "Menu"]
                 ELSE q
            ELSE q
    IN  IF code = "KeyR" /\ p.gameState.status = "playing"
        THEN [afterEnter EXCEPT !.signalled = TRUE, !.command = "Restart"]
        ELSE afterEnter

\* handleKeyPress, lines 485-501: p is [gameState, totalTime, totalBumps].
\* signalled tells whether setResetSignal was called; command names the
\* progression command the key amounted to.
handleKeyPress(p, code) ==
    LET q == [gameState |-> p.gameState, totalTime |-> p.totalTime,
              totalBumps |-> p.totalBumps, signalled |-> FALSE,
              command |-> "Idle"]
        afterEnter ==
            IF code = "Enter" \/ code = "Space"
            THEN IF p.gameState.status = "intro"
                 THEN [q EXCEPT !.gameState = startLevel(0),
                                !.signalled = TRUE,
                                !.command = "Start"]
                 ELSE IF p.gameState.status = "success"
                 THEN [q EXCEPT !.gameState =
                                    startLevel(p.gameState.levelIndex + 1),
                                !.signalled = TRUE,
                                !.command = "Advance"]
                 ELSE IF p.gameState.status = "complete"
                 THEN [q EXCEPT !.gameState = Intro,
                                !.totalBumps = 0,
                                !.totalTime = 0,
                                !.command = "Menu"]
                 ELSE q
            ELSE q
    IN  IF code = "KeyR" /\ p.gameState.status = "playing"
        THEN [afterEnter EXCEPT !.signalled = TRUE, !.command = "Restart"]
        ELSE afterEnter

----------------------------------------------------------------------------
(* State, bounds and a recorded play-through *)

\* frames a run may render
MaxFrames == 2

\* frames driven freely, and frames of rolling out after them, in the
\* specification of the roll-out
FreeFrames == 2
MaxCoastFrames == 4

\* frame times (ms) the renderer delivers: one-second frames, long enough
\* for a vehicle to reach a wall, an obstacle or the goal within MaxFrames
Deltas == {1000}

Controller == [gameState |-> gameState, totalTime |-> totalTime,
               totalBumps |-> totalBumps]

CarState == [car |-> car, velocity |-> velocity, timeRef |-> timeRef,
             bumpsRef |-> bumpsRef]

\* The latest step as the controller saw it.  After a frame: kind is what
\* the frame signalled ("None", "Arrived", "Crashed"), elapsed and bumps are
\* timeRef and bumpsRef at line 406, x, z, rotY and vel the pose and the
\* velocity the goal evaluation read, hits the collisions of the frame,
\* moveVel the velocity of the translation (line 381) and tx, tz the
\* position right after it.
\* After a key or a click: kind is the command ("Start", "Advance",
\* "Restart", "Menu") or "Idle".
Observed(kind) ==
    [kind |-> kind, elapsed |-> 0, bumps |-> 0,
     x |-> 0, z |-> 0, rotY |-> 0, vel |-> 0, hits |-> 0,
     moveVel |-> 0, tx |-> 0, tz |-> 0]

Idle == Observed("Idle")

FrameKinds == {"None", "Arrived", "Crashed"}

Input(kb, delta) == [kb |-> kb, delta |-> delta]

\* One way to park on each level: the keys held during each frame and the
\* frame time.  The last frame of each script is the one that arrives.
Playthrough == <<
    << Input(Keys(TRUE, FALSE, FALSE, FALSE, FALSE), 1000),
       Input(Keys(TRUE, FALSE, FALSE, TRUE, FALSE), 1000),
       Input(Keys(FALSE, FALSE, FALSE, TRUE, FALSE), 1000),
       Input(NoKeys, 1000) >>,
    << Input(Keys(TRUE, FALSE, FALSE, FALSE, FALSE), 1000),
       Input(NoKeys, 1000),
       Input(Keys(TRUE, FALSE, TRUE, FALSE, FALSE), 1000),
       Input(Keys(FALSE, FALSE, TRUE, FALSE, FALSE), 1000),
       Input(NoKeys, 1000) >>,
    << Input(Keys(FALSE, TRUE, FALSE, TRUE, FALSE), 1000),
       Input(Keys(TRUE, FALSE, TRUE, FALSE, FALSE), 1000),
       Input(Keys(TRUE, FALSE, TRUE, FALSE, FALSE), 1000),
       Input(Keys(FALSE, FALSE, FALSE, TRUE, FALSE), 1000),
       Input(Keys(FALSE, FALSE, FALSE, FALSE, TRUE), 1000) >> >>

RECURSIVE Drive(_, _, _)
\* the vehicle after the frames of script, each simulated by useFrame
Drive(level, cs, script) ==
    IF script = << >>
    THEN cs
    ELSE Bind(simulate(level, cs, Head(script).kb, Head(script).delta),
              LAMBDA r :
              Drive(level,
                    [car |-> r.car, velocity |-> r.velocity,
                     timeRef |-> r.timeRef, bumpsRef |-> r.bumpsRef],
                    Tail(script)))

\* the vehicle at the end of the whole script of a level (parked)
Parked(levelIndex) ==
    Drive(LevelAt(levelIndex), resetCarState(LevelAt(levelIndex)),
          Playthrough[levelIndex + 1])

\* the vehicle one frame before it parks
Approaching(levelIndex) ==
    LET script == Playthrough[levelIndex + 1]
    IN  Drive(LevelAt(levelIndex), resetCarState(LevelAt(levelIndex)),
              SubSeq(script, 1, Len(script) - 1))

\* the session totals when the level starts in the play-through
TotalsBefore[levelIndex \in 0..LastIndex] ==
    IF levelIndex = 0
    THEN [totalTime |-> 0, totalBumps |-> 0]
    ELSE [totalTime  |-> TotalsBefore[levelIndex - 1].totalTime
                         + Parked(levelIndex - 1).timeRef,
          totalBumps |-> TotalsBefore[levelIndex - 1].totalBumps
                         + Parked(levelIndex - 1).bumpsRef]

\* A drive on the first level that backs the vehicle up to the far wall
\* inside the goal, and the vehicle at its end.
WallScript == <<
    Input(Keys(FALSE, TRUE, FALSE, TRUE, FALSE), 500),
    Input(Keys(TRUE, FALSE, FALSE, FALSE, FALSE), 1000),
    Input(Keys(FALSE, FALSE, TRUE, FALSE, TRUE), 500),
    Input(Keys(FALSE, TRUE, TRUE, FALSE, FALSE), 1000),
    Input(Keys(FALSE, TRUE, TRUE, FALSE, FALSE), 1000) >>

NearWall == Drive(LevelAt(0), resetCarState(LevelAt(0)), WallScript)

\* A drive on the second level that leaves the approach of the play-through
\* and heads for the obstacle next to the goal, and the vehicle at its end.
ObstacleScript == <<
    Input(Keys(FALSE, FALSE, FALSE, TRUE, FALSE), 500),
    Input(Keys(TRUE, FALSE, TRUE, FALSE, FALSE), 500),
    Input(Keys(TRUE, FALSE, FALSE, TRUE, FALSE), 100) >>

NearObstacle == Drive(LevelAt(1), Approaching(1), ObstacleScript)

\* The state after construction: useState initial values (lines 83-89,
\* 435-439), refs (lines 296-300) and the mount effect (lines 342-344).
InitConstructed ==
    /\ gameState = Intro
    /\ totalTime = 0
    /\ totalBumps = 0
    /\ keyboard = NoKeys
    /\ car = resetCarState(LevelAt(0)).car
    /\ velocity = 0
    /\ timeRef = 0
    /\ bumpsRef = 0

\* The play-through one frame before parking on a level.
InitApproaching(levelIndex) ==
    LET script == Playthrough[levelIndex + 1]
        cs     == Approaching(levelIndex)
        t      == TotalsBefore[levelIndex]
    IN  /\ gameState = Playing(levelIndex)
        /\ totalTime = t.totalTime
        /\ totalBumps = t.totalBumps
        /\ keyboard = script[Len(script) - 1].kb
        /\ car = cs.car
        /\ velocity = cs.velocity
        /\ timeRef = cs.timeRef
        /\ bumpsRef = cs.bumpsRef

\* a level in play with the vehicle at cs and the keys kb held
InitDriving(levelIndex, cs, kb) ==
    /\ gameState = Playing(levelIndex)
    /\ totalTime = TotalsBefore[levelIndex].totalTime
    /\ totalBumps = TotalsBefore[levelIndex].totalBumps
    /\ keyboard = kb
    /\ car = cs.car
    /\ velocity = cs.velocity
    /\ timeRef = cs.timeRef
    /\ bumpsRef = cs.bumpsRef

Init ==
    /\ \/ InitConstructed
       \/ \E levelIndex \in 0..LastIndex : InitApproaching(levelIndex)
       \/ InitDriving(0, NearWall, WallScript[Len(WallScript)].kb)
       \/ InitDriving(1, NearObstacle,
                      ObstacleScript[Len(ObstacleScript)].kb)
    /\ frames = 0
    /\ event = Idle
    /\ keysDown = {}
    /\ pending = << >>

----------------------------------------------------------------------------
(* Actions *)

\* writes the controller state p and the vehicle state cs
Commit(p, cs) ==
    /\ gameState' = p.gameState
    /\ totalTime' = p.totalTime
    /\ totalBumps' = p.totalBumps
    /\ car' = cs.car
    /\ velocity' = cs.velocity
    /\ timeRef' = cs.timeRef
    /\ bumpsRef' = cs.bumpsRef

\* the callbacks of lines 406 and 411 applied to the controller state p
callbacks(p, r) ==
    Bind(IF r.arrived THEN handleSuccess(p, r.timeRef, r.bumpsRef) ELSE p,
         LAMBDA p1 : IF r.crashed THEN handleCrash(p1) ELSE p1)

\* the vehicle at the end of useFrame: resetCarState on a crash (line 412)
afterFrame(level, r) ==
    IF r.crashed
    THEN resetCarState(level)
    ELSE [car |-> r.car, velocity |-> r.velocity,
          timeRef |-> r.timeRef, bumpsRef |-> r.bumpsRef]

\* what the frame signalled, with the values the goal evaluation read
signal(r, bumpsBefore) ==
    [kind |-> IF r.crashed THEN "Crashed"
              ELSE IF r.arrived THEN "Arrived" ELSE "None",
     elapsed |-> r.timeRef, bumps |-> r.bumpsRef,
     x |-> r.car.x, z |-> r.car.z, rotY |-> r.car.rotY, vel |-> r.goalVel,
     hits |-> r.bumpsRef - bumpsBefore,
     moveVel |-> r.moveVel, tx |-> r.moved.x, tz |-> r.moved.z]

\* One rendered frame: useFrame (lines 346-414) with the callbacks it calls
\* (handleSuccess, handleCrash), resetCarState on a crash, and the effect
\* that follows the re-render.  With fault, the over-speed test of line
\* 410 is taken to succeed whatever the velocity.
Step(delta, fault) ==
    /\ \E level \in {currentLevel(gameState)} :
       \E r0 \in {simulate(level, CarState, keyboard, delta)} :
       \E r \in {[r0 EXCEPT !.crashed = @ \/ fault]} :
       \E p \in {callbacks(Controller, r)} :
       \E cs \in {resetEffect(gameState, p.gameState, FALSE,
                              afterFrame(level, r))} :
          /\ Commit(p, cs)
          /\ event' = signal(r, bumpsRef)
    /\ frames' = frames + 1
    /\ UNCHANGED <<keyboard, keysDown, pending>>

\* a frame within the frame budget of the model
Frame(delta, fault) ==
    /\ frames < MaxFrames
    /\ Step(delta, fault)

useFrame(delta) == Frame(delta, FALSE)

\* A frame in which the over-speed branch of lines 410-413 runs.  The clamp
\* of line 367 keeps |velocity| at most 24, so no frame of the program
\* takes the branch; this action exercises it.
OverSpeedFrame(delta) == Frame(delta, TRUE)

\* what the program does on a keydown event: both listeners run (lines
\* 120 and 503)
OnKeyDown(code) ==
    /\ keyboard' = onKey(keyboard, TRUE, code)
    /\ \E q \in {handleKeyPress(Controller, code)} :
          /\ Commit(q, resetEffect(gameState, q.gameState, q.signalled,
                                   CarState))
          /\ event' = Observed(q.command)
    /\ UNCHANGED <<frames, pending>>

\* what the program does on a keyup event (line 121)
OnKeyUp(code) ==
    /\ keyboard' = onKey(keyboard, FALSE, code)
    /\ event' = Idle
    /\ UNCHANGED <<gameState, totalTime, totalBumps, car, velocity, timeRef,
                   bumpsRef, frames, pending>>

\* a keydown event
KeyDown(code) ==
    /\ OnKeyDown(code)
    /\ UNCHANGED keysDown

\* a keyup event
KeyUp(code) ==
    /\ OnKeyUp(code)
    /\ UNCHANGED keysDown

\* the player presses a key, or holds it (the keydown event repeats)
PressKey(code) ==
    /\ OnKeyDown(code)
    /\ keysDown' = keysDown \cup {code}

\* the player lets go of a key that is down
ReleaseKey(code) ==
    /\ code \in keysDown
    /\ OnKeyUp(code)
    /\ keysDown' = keysDown \ {code}

\* "Start Patrol", line 549 (rendered in intro only)
ClickStartPatrol ==
    /\ gameState.status = "intro"
    /\ \E q \in {[Controller EXCEPT !.gameState = startLevel(0)]} :
          Commit(q, resetEffect(gameState, q.gameState, TRUE, CarState))
    /\ event' = Observed("Start")
    /\ UNCHANGED <<keyboard, frames, keysDown, pending>>

\* "Next Assignment", line 556 (rendered in success only)
ClickNextAssignment ==
    /\ gameState.status = "success"
    /\ \E q \in {[Controller EXCEPT
                      !.gameState = startLevel(gameState.levelIndex + 1)]} :
          Commit(q, resetEffect(gameState, q.gameState, TRUE, CarState))
    /\ event' = Observed("Advance")
    /\ UNCHANGED <<keyboard, frames, keysDown, pending>>

\* the onClick of "Run It Back", line 563
runItBack(p) == [p EXCEPT !.gameState = Intro]

\* "Run It Back", line 563 (rendered in complete only)
ClickRunItBack ==
    /\ gameState.status = "complete"
    /\ \E q \in {runItBack(Controller)} :
          Commit(q, resetEffect(gameState, q.gameState, FALSE, CarState))
    /\ event' = Observed("Menu")
    /\ UNCHANGED <<keyboard, frames, keysDown, pending>>

Next ==
    \/ \E delta \in Deltas : useFrame(delta)
    \/ \E code \in KeyCodes : KeyDown(code)
    \/ \E code \in KeyCodes : KeyUp(code)
    \/ ClickStartPatrol
    \/ ClickNextAssignment
    \/ ClickRunItBack

Spec == Init /\ [][Next]_vars

\* The program with the over-speed branch exercised.
NextFault == Next \/ \E delta \in Deltas : OverSpeedFrame(delta)

SpecFault == Init /\ [][NextFault]_vars

\* The program run until the vehicle has rolled out.  The player drives
\* for FreeFrames frames; after that the keys stay as they are, and the
\* frames go on, MaxCoastFrames of them, while neither forward nor backward
\* is held.  The renderer calls useFrame on every animation frame, so a
\* frame that stays possible is eventually rendered.
Coasting == ~keyboard.forward /\ ~keyboard.backward

CoastFrame(delta) ==
    /\ frames < FreeFrames + (IF Coasting THEN MaxCoastFrames ELSE 0)
    /\ Step(delta, FALSE)

CoastKeyDown(code) ==
    /\ frames <= FreeFrames
    /\ KeyDown(code)

CoastKeyUp(code) ==
    /\ frames <= FreeFrames
    /\ KeyUp(code)

\* the keys of the roll-out: throttle, reverse, brake and restart; the
\* steering keys stay as the drive before left them
CoastCodes == {"KeyW", "KeyS", "Space", "KeyR"}

NextCoast ==
    \/ \E delta \in Deltas : CoastFrame(delta)
    \/ \E code \in CoastCodes : CoastKeyDown(code)
    \/ \E code \in CoastCodes : CoastKeyUp(code)

SpecCoast ==
    /\ Init
    /\ [][NextCoast]_vars
    /\ WF_vars(\E delta \in Deltas : CoastFrame(delta))

\* The keyboard of the program from its construction, with the keys the
\* player has down followed in keysDown.
InitKeys ==
    /\ InitConstructed
    /\ frames = 0
    /\ event = Idle
    /\ keysDown = {}
    /\ pending = << >>

NextKeys ==
    \/ \E code \in KeyCodes : PressKey(code)
    \/ \E code \in KeyCodes : ReleaseKey(code)

SpecKeys == InitKeys /\ [][NextKeys]_vars

\* The program with the re-render that follows a state update as a step of
\* its own.  handleSuccess is a useCallback over gameState, totalTime and
\* totalBumps (lines 453-478), and useFrame calls the handleSuccess of the
\* last render: until React renders again, a frame sees the state of that
\* render, while the refs (vehicle, velocity, timeRef, bumpsRef) change at
\* once.  The set-state calls of lines 460-474 write absolute values, so a
\* later batch replaces an earlier one; handleCrash (line 481) is an
\* updater and adds to it.

\* the vehicle driven to the approach of the first level while the menu
\* (gs) is up: the frames and the keys go on in every status
InitIdling(gs, totals) ==
    LET script == Playthrough[1]
        cs     == Approaching(0)
    IN  /\ gameState = gs
        /\ totalTime = totals.totalTime
        /\ totalBumps = totals.totalBumps
        /\ keyboard = script[Len(script) - 1].kb
        /\ car = cs.car
        /\ velocity = cs.velocity
        /\ timeRef = cs.timeRef
        /\ bumpsRef = cs.bumpsRef

\* the session totals at the end of the play-through
TotalsAfter ==
    [totalTime  |-> TotalsBefore[LastIndex].totalTime
                    + Parked(LastIndex).timeRef,
     totalBumps |-> TotalsBefore[LastIndex].totalBumps
                    + Parked(LastIndex).bumpsRef]

InitDeferred ==
    /\ \/ \E levelIndex \in 0..LastIndex : InitApproaching(levelIndex)
       \/ InitIdling(Intro, TotalsBefore[0])
       \/ InitIdling(Complete(TotalsAfter.totalTime, TotalsAfter.totalBumps),
                     TotalsAfter)
    /\ frames = 0
    /\ event = Idle
    /\ keysDown = {}
    /\ pending = << >>

\* the updates batched after the callbacks of a frame
batch(p, r) ==
    Bind(IF r.arrived THEN handleSuccess(p, r.timeRef, r.bumpsRef) ELSE p,
         LAMBDA p1 :
    Bind(IF p1 # p THEN <<p1>> ELSE pending, LAMBDA b :
         IF r.crashed
         THEN <<handleCrash(IF b = << >> THEN p ELSE b[1])>>
         ELSE b))

\* useFrame (lines 346-414) before React has rendered the updates of an
\* earlier frame: the callbacks run on the state of the last render
DeferredFrame(delta) ==
    /\ frames < MaxFrames
    /\ \E level \in {currentLevel(gameState)} :
       \E r \in {simulate(level, CarState, keyboard, delta)} :
       \E cs \in {afterFrame(level, r)} :
          /\ pending' = batch(Controller, r)
          /\ car' = cs.car
          /\ velocity' = cs.velocity
          /\ timeRef' = cs.timeRef
          /\ bumpsRef' = cs.bumpsRef
          /\ event' = signal(r, bumpsRef)
    /\ frames' = frames + 1
    /\ UNCHANGED <<gameState, totalTime, totalBumps, keyboard, keysDown>>

\* React renders the batched updates; the effect of lines 342-344 follows
Render ==
    /\ pending # << >>
    /\ \E p \in {pending[1]} :
          Commit(p, resetEffect(gameState, p.gameState, FALSE, CarState))
    /\ pending' = << >>
    /\ event' = Observed("Render")
    /\ UNCHANGED <<keyboard, frames, keysDown>>

\* key events between renders
DeferredKeyDown(code) ==
    /\ pending = << >>
    /\ KeyDown(code)

DeferredKeyUp(code) ==
    /\ pending = << >>
    /\ KeyUp(code)

NextDeferred ==
    \/ \E delta \in Deltas : DeferredFrame(delta)
    \/ Render
    \/ \E code \in KeyCodes : DeferredKeyDown(code)
    \/ \E code \in KeyCodes : DeferredKeyUp(code)

SpecDeferred == InitDeferred /\ [][NextDeferred]_vars

----------------------------------------------------------------------------
(* Properties of the arrival condition and of the progression *)

\* the step is a rendered frame
IsFrame == event'.kind \in FrameKinds

\* the point (x, z) lies in the goal volume of the level: the goal footprint
\* shrunk by 0.4 in width and depth, faces included
InGoalVolume(level, x, z) ==
    /\ 2 * Abs(x - level.goalPosition.x) <= level.goalSize.x - 400
    /\ 2 * Abs(z - level.goalPosition.z) <= level.goalSize.z - 400

\* the heading is within 0.3 rad of the goal's heading, modulo full turns
FacesGoal(level, rotY) ==
    \E k \in -4..4 : Abs(rotY - level.goalRotation + k * TwoPi) < 300

\* C1: a frame signals Arrived exactly when, after collision resolution, the
\* vehicle's position is inside the goal volume, its speed is below 1.2 and
\* its heading is within 0.3 rad of the goal's; so a vehicle at rest inside
\* the goal volume and facing the goal, with no drive intent, arrives in
\* the next frame.
ArrivedExactlyWhenParked ==
    [][IsFrame =>
         LET level == currentLevel(gameState)
         IN  /\ (event'.kind = "Arrived") <=>
                   /\ InGoalVolume(level, event'.x, event'.z)
                   /\ Abs(event'.vel) < 1200
                   /\ FacesGoal(level, event'.rotY)
             /\ ( /\ velocity = 0
                  /\ ~keyboard.forward /\ ~keyboard.backward
                  /\ InGoalVolume(level, car.x, car.z)
                  /\ FacesGoal(level, car.rotY) )
                => event'.kind = "Arrived"]_vars

\* C1 witness: a vehicle left at rest in the goal arrives again
ArrivedAgainAtRest ==
    /\ event.kind = "Arrived"
    /\ event.vel = 0
    /\ gameState.status = "success"
    /\ timeRef > gameState.elapsed

\* C2: an arrival in Playing(i), i not the last level, moves to Success(i)
\* with the frame's elapsed time and bump count, and the session totals
\* grow by exactly these two values.
ArrivalRecordsSuccess ==
    [][(/\ gameState.status = "playing"
        /\ gameState.levelIndex # LastIndex
        /\ event'.kind = "Arrived")
       => /\ event'.elapsed = timeRef' /\ event'.elapsed > timeRef
          /\ event'.bumps = bumpsRef'
          /\ gameState' = Success(gameState.levelIndex,
                                  event'.elapsed, event'.bumps)
          /\ totalTime' = totalTime + event'.elapsed
          /\ totalBumps' = totalBumps + event'.bumps]_vars

\* C2 witness: level 1 has just been finished on top of level 0's totals
SecondLevelParked ==
    /\ event.kind = "Arrived"
    /\ gameState.status = "success"
    /\ gameState.levelIndex = 1
    /\ timeRef = gameState.elapsed
    /\ totalTime > gameState.elapsed
    /\ totalBumps > gameState.bumps

\* C3: an arrival in Playing(last) moves to Complete carrying the totals
\* with this level's elapsed time and bumps added, and Success(last) is
\* never entered.
FinalArrivalCompletes ==
    [][/\ (/\ gameState.status = "playing"
           /\ gameState.levelIndex = LastIndex
           /\ event'.kind = "Arrived")
          => /\ totalTime' = totalTime + event'.elapsed
             /\ totalBumps' = totalBumps + event'.bumps
             /\ gameState' = Complete(totalTime', totalBumps')
       /\ gameState'.status = "success"
          => gameState'.levelIndex # LastIndex]_vars

\* C3 witness: the last level has just been finished
SessionCompleted ==
    /\ event.kind = "Arrived"
    /\ gameState.status = "complete"
    /\ gameState.totalTime = totalTime
    /\ gameState.totalBumps = totalBumps
    /\ totalTime > event.elapsed

\* C4: every step from Complete to Intro, by key or by button, clears the
\* session's total time and total bumps.
ReturnToMenuClearsTotals ==
    [][(gameState.status = "complete" /\ gameState'.status = "intro")
       => (totalTime' = 0 /\ totalBumps' = 0)]_vars

NothingChanges ==
    UNCHANGED <<gameState, totalTime, totalBumps, keyboard, car, velocity,
                timeRef, bumpsRef, frames, keysDown, pending>>

\* C7: the restart key in Playing(i) keeps Playing(i) and the session totals,
\* zeroes the level timer and the level bump counter and puts the vehicle at
\* the start pose with velocity zero; in any other state it changes nothing.
RestartResetsOnlyTheLevel ==
    [][KeyDown("KeyR") =>
         IF gameState.status = "playing"
         THEN /\ gameState' = gameState
              /\ totalTime' = totalTime /\ totalBumps' = totalBumps
              /\ timeRef' = 0 /\ bumpsRef' = 0
              /\ velocity' = 0
              /\ car' = [x |-> currentLevel(gameState).start.x,
                         z |-> currentLevel(gameState).start.z,
                         rotY |-> currentLevel(gameState).startRotation]
         ELSE NothingChanges]_vars

\* C7 witness: a level restarted after driving, with totals from level 0
RestartedMidSession ==
    /\ event.kind = "Restart"
    /\ gameState.status = "playing"
    /\ frames > 0
    /\ timeRef = 0 /\ bumpsRef = 0 /\ velocity = 0
    /\ totalTime > 0 /\ totalBumps > 0

\* C8: Playing(i) is entered only from Intro with i = 0 or from Success(i-1),
\* and the level index of Playing and Success is always a valid level.
PlayingEnteredInOrder ==
    [][/\ (gameState'.status = "playing" /\ gameState' # gameState)
          => \/ gameState.status = "intro" /\ gameState'.levelIndex = 0
             \/ /\ gameState.status = "success"
                /\ gameState'.levelIndex = gameState.levelIndex + 1
       /\ gameState'.status \in {"playing", "success"}
          => gameState'.levelIndex \in 0..LastIndex]_vars

\* C8 witness: the last level entered by advancing from Success
AdvancedToLastLevel ==
    /\ event.kind = "Advance"
    /\ gameState = Playing(LastIndex)
    /\ timeRef = 0

\* C9: the session totals never decrease except in the step from Complete
\* to Intro.
TotalsOnlyDropOnReturn ==
    [][(totalTime' < totalTime \/ totalBumps' < totalBumps)
       => (gameState.status = "complete" /\ gameState'.status = "intro")]_vars

\* C9 witness: the totals of a finished session cleared on return to Intro
TotalsClearedOnReturn ==
    /\ event.kind = "Menu"
    /\ gameState.status = "intro"
    /\ frames > 0
    /\ totalTime = 0 /\ totalBumps = 0

\* C10 as stated: in a frame with no intent held the magnitude of the
\* velocity does not increase and its sign does not change.
CoastingNeverReverses ==
    [][(IsFrame /\ keyboard = NoKeys)
       => /\ Abs(velocity') <= Abs(velocity)
          /\ Sign(velocity') * Sign(velocity) >= 0]_vars

\* C10: in a frame with no intent held the magnitude of the velocity does
\* not increase, and its sign changes only in a frame that reverted the
\* move after a boundary or obstacle collision.
CoastingReversesOnlyOnCollision ==
    [][(IsFrame /\ keyboard = NoKeys)
       => /\ Abs(velocity') <= Abs(velocity)
          /\ Sign(velocity') * Sign(velocity) < 0 => event'.hits > 0]_vars

\* C10 witness: a coasting vehicle bounced off a wall or an obstacle
CoastedIntoCollision ==
    /\ event.kind = "None"
    /\ event.hits = 1
    /\ keyboard = NoKeys
    /\ velocity # 0

----------------------------------------------------------------------------
(* Properties of the collision resolution and of the velocity update *)

\* the point (x, z) lies in the boundary volume of the level: the arena
\* rectangle shrunk by 0.5 on each side, faces included
InBoundary(level, x, z) ==
    /\ 2 * Abs(x) <= level.bounds.width - 1000
    /\ 2 * Abs(z) <= level.bounds.height - 1000

\* w is factor/10 times v, to the last digit of the fixed point
Scaled(w, v, factor) == Abs(10 * w - factor * v) < 10

\* C11 as stated: a frame whose translation leaves the boundary volume ends
\* with the pre-move position, with -0.3 times the velocity of the
\* translation and with a higher bump counter.
WallHitEndsReverted ==
    [][(IsFrame /\ ~InBoundary(currentLevel(gameState), event'.tx, event'.tz))
       => /\ car'.x = car.x /\ car'.z = car.z
          /\ Scaled(velocity', event'.moveVel, -3)
          /\ bumpsRef' > bumpsRef]_vars

\* C11: in a frame whose translation leaves the boundary volume, the
\* collision resolution restores the pre-move position, leaves -0.3 times
\* the velocity of the translation and counts one bump; the frame ends with
\* these values unless its goal evaluation signals Arrived, which zeroes
\* the velocity.
WallHitRevertsUnlessArrived ==
    [][(IsFrame /\ ~InBoundary(currentLevel(gameState), event'.tx, event'.tz))
       => /\ event'.x = car.x /\ event'.z = car.z
          /\ Scaled(event'.vel, event'.moveVel, -3)
          /\ event'.bumps = bumpsRef + 1
          /\ event'.kind = "Arrived" => velocity' = 0
          /\ event'.kind # "Arrived"
             => /\ car'.x = car.x /\ car'.z = car.z
                /\ velocity' = event'.vel
                /\ bumpsRef' = bumpsRef + 1]_vars

\* C11 witness: a moving vehicle has just been thrown back by the wall
ThrownBackByWall ==
    /\ event.kind = "None"
    /\ ~InBoundary(currentLevel(gameState), event.tx, event.tz)
    /\ car.x = event.x /\ car.z = event.z
    /\ velocity # 0
    /\ velocity * event.moveVel < 0

\* the vehicle's collision box (1.6 x 2.1, axis-aligned) centred on (x, z)
\* meets the volume of the obstacle: its footprint shrunk by 0.4, at least
\* 0.5 wide and deep; touching counts
BoxMeets(obstacle, x, z) ==
    /\ 2 * Abs(x - obstacle.position.x)
          <= 1600 + Max(obstacle.size.x - 400, 500)
    /\ 2 * Abs(z - obstacle.position.z)
          <= 2100 + Max(obstacle.size.z - 400, 500)

HitsObstacle(level, x, z) ==
    \E i \in DOMAIN level.obstacles : BoxMeets(level.obstacles[i], x, z)

\* C12 as stated: a frame whose collision box at the post-translation
\* position meets an obstacle ends with the pre-tick position, with -0.4
\* times the velocity of the translation and with the bump counter one
\* higher.
ObstacleHitEndsReverted ==
    [][(IsFrame /\ HitsObstacle(currentLevel(gameState), event'.tx, event'.tz))
       => /\ car'.x = car.x /\ car'.z = car.z
          /\ Scaled(velocity', event'.moveVel, -4)
          /\ bumpsRef' = bumpsRef + 1]_vars

\* C12: in a frame whose collision box at the post-translation position
\* meets an obstacle, the collision resolution restores the pre-tick
\* position, leaves -0.4 times the velocity of the translation and counts
\* exactly one bump; the frame ends with these values unless its goal
\* evaluation signals Arrived, which zeroes the velocity.
ObstacleHitRevertsUnlessArrived ==
    [][(IsFrame /\ HitsObstacle(currentLevel(gameState), event'.tx, event'.tz))
       => /\ event'.x = car.x /\ event'.z = car.z
          /\ Scaled(event'.vel, event'.moveVel, -4)
          /\ event'.bumps = bumpsRef + 1
          /\ event'.kind = "Arrived" => velocity' = 0
          /\ event'.kind # "Arrived"
             => /\ car'.x = car.x /\ car'.z = car.z
                /\ velocity' = event'.vel
                /\ bumpsRef' = bumpsRef + 1]_vars

\* C12 witness: a moving vehicle has just been thrown back by an obstacle
ThrownBackByObstacle ==
    /\ event.kind = "None"
    /\ HitsObstacle(currentLevel(gameState), event.tx, event.tz)
    /\ car.x = event.x /\ car.z = event.z
    /\ velocity # 0
    /\ velocity * event.moveVel < 0

\* the footprint of the given size centred on position lies within the
\* arena rectangle of the level (width x depth centred on the origin)
FootprintInArena(level, position, size) ==
    /\ 2 * Abs(position.x) + size.x <= level.bounds.width
    /\ 2 * Abs(position.z) + size.z <= level.bounds.height

FootprintsInside(level) ==
    /\ FootprintInArena(level, level.goalPosition, level.goalSize)
    /\ \A i \in DOMAIN level.obstacles :
          FootprintInArena(level, level.obstacles[i].position,
                           level.obstacles[i].size)

\* C13: the goal footprint and every obstacle footprint of a level lie
\* fully within the arena rectangle of that level; stated for the level on
\* stage, which every level of the catalog is in some reachable state.
FootprintsInsideArena == FootprintsInside(currentLevel(gameState))

\* C14: the boundary volume of a level is the arena rectangle shrunk on
\* each side by the vehicle's half-width (0.8) along x and half-depth (1.5)
\* along z, so a vehicle whose centre is inside the boundary volume has its
\* whole 1.6 x 3.0 footprint inside the arena; stated for the level on
\* stage and the vehicle's position.
BoundaryKeepsVehicleInArena ==
    LET level == currentLevel(gameState)
        box   == boundsBox(level)
    IN  /\ 2 * box.max.x = level.bounds.width - carSize.x
        /\ 2 * box.min.x = -(level.bounds.width - carSize.x)
        /\ 2 * box.max.z = level.bounds.height - carSize.z
        /\ 2 * box.min.z = -(level.bounds.height - carSize.z)
        /\ containsPoint(box, Vec(car.x, 1000, car.z))
           => FootprintInArena(level, car, carSize)

\* the frame time of the step
FrameDelta == event'.elapsed - timeRef

\* the velocity of the step after acceleration, braking and clamping
ClampedVelocity ==
    clampSpeed(applyBrake(applyAccel(velocity, keyboard, FrameDelta),
                          keyboard, FrameDelta), keyboard)

\* C15: in every frame the clamped velocity is damped before the
\* translation: its magnitude is reduced by min(|velocity|, rate x dt),
\* where rate is 8 if none of forward, backward, brake is held and 5 if any
\* of them is held; so a frame with forward or backward held still decays.
DampingInEveryFrame ==
    [][IsFrame =>
         LET rate == IF keyboard.forward \/ keyboard.backward \/ keyboard.brake
                     THEN 5 ELSE 8
             loss == Min(Abs(ClampedVelocity), rate * FrameDelta)
         IN  event'.moveVel = ClampedVelocity - Sign(ClampedVelocity) * loss]_vars

\* C19: the velocity at the end of every frame lies in [-10, 24], the
\* translation of a frame with backward held uses a velocity of at most 10,
\* and so no frame of the program signals Crashed: the over-speed test
\* |velocity| > 35 is never true.
SpeedStaysClamped ==
    [][IsFrame =>
         /\ velocity' >= -10000
         /\ velocity' <= 24000
         /\ event'.moveVel >= -10000
         /\ event'.moveVel <= 24000
         /\ keyboard.backward => event'.moveVel <= 10000
         /\ Abs(event'.vel) <= 35000
         /\ event'.kind # "Crashed"]_vars

\* C19 witness: a frame under full throttle was cut to the top speed.
HeldAtTopSpeed ==
    /\ event.kind = "None"
    /\ keyboard.forward
    /\ event.moveVel = 24000
    /\ velocity = 24000

\* C20: in every state of the program, hence at the end of every frame, the
\* position of the vehicle is contained in the boundary volume of the
\* current level and the vehicle's collision box meets no obstacle volume
\* of that level.
VehicleStaysClear ==
    LET level == currentLevel(gameState)
    IN  /\ InBoundary(level, car.x, car.z)
        /\ containsPoint(boundsBox(level), Vec(car.x, 1000, car.z))
        /\ ~HitsObstacle(level, car.x, car.z)
        /\ ~collided(level, Vec(car.x, 0, car.z))

\* C20 witness: the translation of the last frame left the boundary volume
\* or ran into an obstacle, and the frame put the vehicle back.
MoveUndone ==
    LET level == currentLevel(gameState)
    IN  /\ event.kind \in FrameKinds
        /\ event.hits >= 1
        /\ \/ ~InBoundary(level, event.tx, event.tz)
           \/ HitsObstacle(level, event.tx, event.tz)
        /\ car.x # event.tx \/ car.z # event.tz
        /\ gameState.status = "playing"

CoastingComesToRest ==
    <>[]Coasting => <>[](velocity = 0)

\* C18 witness: the vehicle rolled out, hit something on the way, and the
\* last frame of the roll-out found it at rest.
RolledToRest ==
    /\ frames = FreeFrames + MaxCoastFrames
    /\ Coasting
    /\ gameState.status = "playing"
    /\ event.kind = "None"
    /\ event.moveVel = 0
    /\ velocity = 0
    /\ bumpsRef > 0

\* some key of the set is down
Held(codes) == keysDown \cap codes # {}

\* C17: after any sequence of key-down and key-up events each intent is
\* true exactly when at least one of the keys bound to it is down.
IntentsFollowKeys ==
    /\ keyboard.forward  = Held({"ArrowUp", "KeyW"})
    /\ keyboard.backward = Held({"ArrowDown", "KeyS"})
    /\ keyboard.left     = Held({"ArrowLeft", "KeyA"})
    /\ keyboard.right    = Held({"ArrowRight", "KeyD"})
    /\ keyboard.brake    = Held({"Space"})

\* the level timer at the latest Arrived signal a step can record: the
\* timer of the frame, or for a render the timer reached before it
SignalTime == Max(timeRef, event'.elapsed)

\* C21: the frames go on in every status, and an Arrived signal received
\* while the status is not "playing" leaves the progression state and both
\* session totals as they are and batches no update.  The totals change
\* only in the step that leaves Playing(i), by the elapsed time and the
\* bumps of one Arrived signal of that level (the ones Success(i) shows),
\* and in the return from Complete to the menu, which clears them: however
\* many Arrived signals follow, a level is counted once.
ArrivedCountedOnce ==
    [][/\ (event'.kind = "Arrived" /\ gameState.status # "playing")
          => /\ gameState' = gameState
             /\ totalTime' = totalTime
             /\ totalBumps' = totalBumps
             /\ pending' = << >>
       /\ (totalTime' # totalTime \/ totalBumps' # totalBumps)
          => \/ /\ gameState.status = "playing"
                /\ gameState'.status = "success"
                /\ gameState'.levelIndex = gameState.levelIndex
                /\ totalTime' = totalTime + gameState'.elapsed
                /\ totalBumps' = totalBumps + gameState'.bumps
                /\ gameState'.elapsed > 0
                /\ gameState'.elapsed <= SignalTime
             \/ /\ gameState.status = "playing"
                /\ gameState.levelIndex = LastIndex
                /\ gameState'.status = "complete"
                /\ gameState'.totalTime = totalTime'
                /\ gameState'.totalBumps = totalBumps'
                /\ totalTime' > totalTime
                /\ totalTime' - totalTime <= SignalTime
                /\ totalBumps' >= totalBumps
             \/ /\ gameState.status = "complete"
                /\ gameState'.status = "intro"
                /\ totalTime' = 0
                /\ totalBumps' = 0
       /\ (gameState.status = "success" /\ gameState'.status = "success")
          => gameState' = gameState]_vars

\* C21 witness: the level is cleared and counted, the vehicle stays parked
\* and a later frame signals Arrived again.
ArrivedAfterSuccess ==
    /\ gameState.status = "success"
    /\ pending = << >>
    /\ event.kind = "Arrived"
    /\ event.elapsed > gameState.elapsed
    /\ totalTime = TotalsBefore[gameState.levelIndex].totalTime
                   + gameState.elapsed

\* an Arrived signal while the menu is up, and one after the last level
ArrivedInMenu == gameState.status = "intro" /\ event.kind = "Arrived"

ArrivedAfterComplete ==
    /\ gameState.status = "complete"
    /\ event.kind = "Arrived"
    /\ totalTime = gameState.totalTime

\* two frames signalled Arrived before React rendered the first update
ArrivedTwiceBeforeRender ==
    /\ gameState.status = "playing"
    /\ pending # << >>
    /\ frames = 2
    /\ event.kind = "Arrived"
    /\ event.vel = 0
    /\ event.moveVel = 0

====
